---- MODULE Spec2Model ----
(***************************************************************************)
(* Model of src/index.ts: the three MCP tools of the Elasticsearch server  *)
(* (list_indices, get_mappings, search), the process-wide index-list cache *)
(* (cachedIndices / cacheTimestamp / CACHE_DURATION) and the cooperative   *)
(* interleaving of tool invocations, which suspend only at the backend     *)
(* call (await) and resume when it settles.                                *)
(*                                                                         *)
(* JavaScript values are tagged records: [t |-> "undefined"],              *)
(* [t |-> "number", v |-> 3], [t |-> "object", v |-> <function>], ...      *)
(* A string is a sequence of tokens: a literal chunk Lit("Found "), the    *)
(* decimal rendering of a number NumTok(3), or the JSON text of a value    *)
(* JsonTok(v).  Object keys are strings too, so an index name can key the  *)
(* mapping response.                                                       *)
(***************************************************************************)
EXTENDS Integers, Sequences, FiniteSets, TLC

VARIABLES
    clock,          \* what Date.now() returns
    ticks,          \* number of clock advances so far (bounded)
    cachedIndices,  \* module variable cachedIndices (JS value, Null at start)
    cacheTimestamp, \* module variable cacheTimestamp (JS value, Null at start)
    calls,          \* number of tool invocations started so far
    tool,           \* tool[j]: the tool invocation j is running
    pc,             \* pc[j]: "idle", "await" (suspended at the backend call),
                    \*        "done" (handler returned), "invalid" (schema refused)
    locals,         \* locals[j]: the handler's local variables while it runs
    fetches,        \* fetches[j]: backend requests the running invocation j issued
    seen,           \* seen[j]: Len(writeLog) when the running invocation j started
    returned,       \* the handler that returned last: its invocation, the locals
                    \* it ran with, the backend requests it issued, how its
                    \* backend call settled, what it wrote with console.error,
                    \* its result
    writeLog        \* the successful cache refreshes, in the order they wrote:
                    \* the invocation, its `now`, the JSON dump it returned

vars == <<clock, ticks, cachedIndices, cacheTimestamp, calls, tool, pc, locals,
          fetches, seen, returned, writeLog>>

-----------------------------------------------------------------------------
(* Bounds of the model *)

\* tool invocations per behaviour
MaxCalls == 3
\* clock advances per behaviour
MaxTicks == 2
\* largest total hit count the backend reports
MaxTotal == 2

\* const CACHE_DURATION = 600_000
CACHE_DURATION == 600000

\* Date.now() when the process starts: any current date is after the epoch
StartClock == 1

Calls == 1..MaxCalls

\* the steps by which the clock advances between two events
Deltas == {1, CACHE_DURATION - 1}

-----------------------------------------------------------------------------
(* JavaScript values *)

Undefined == [t |-> "undefined"]
Null == [t |-> "null"]
Num(n) == [t |-> "number", v |-> n]
Str(toks) == [t |-> "string", v |-> toks]
Obj(f) == [t |-> "object", v |-> f]
Arr(s) == [t |-> "array", v |-> s]
\* an Error instance
Err(name, message) == [t |-> "error", name |-> name, message |-> message]

Lit(s) == [k |-> "lit", s |-> s]
NumTok(n) == [k |-> "num", n |-> n]
JsonTok(v) == [k |-> "json", v |-> v]

\* a string literal, and a property name
S(s) == Str(<<Lit(s)>>)
K(s) == <<Lit(s)>>

EmptyObject == Obj(<<>>)

\* ToBoolean: what `a && b`, `a || b` and `!!a` test
Truthy(x) ==
    CASE x.t \in {"undefined", "null"} -> FALSE
      [] x.t = "number" -> x.v # 0
      [] x.t = "string" -> Len(x.v) > 0
      [] OTHER -> TRUE

\* a || b
OrElse(a, b) == IF Truthy(a) THEN a ELSE b

TypeOf(x) ==
    CASE x.t = "undefined" -> "undefined"
      [] x.t = "number" -> "number"
      [] x.t = "string" -> "string"
      [] OTHER -> "object"

\* reading a property of null or undefined throws a TypeError
Nullish(x) == x.t \in {"undefined", "null"}

\* x[key] for a non-nullish x
Get(x, key) ==
    IF x.t = "object" /\ key \in DOMAIN x.v THEN x.v[key] ELSE Undefined

\* x?.[key]
OptGet(x, key) == IF Nullish(x) THEN Undefined ELSE Get(x, key)

\* String(x) / `${x}` as tokens
ToStringToks(x) ==
    CASE x.t = "string" -> x.v
      [] x.t = "number" -> <<NumTok(x.v)>>
      [] x.t = "undefined" -> <<Lit("undefined")>>
      [] x.t = "null" -> <<Lit("null")>>
      [] x.t = "error" -> x.name.v \o <<Lit(": ")>> \o x.message.v
      [] x.t = "array" -> <<Lit("<array>")>>
      [] OTHER -> <<Lit("[object Object]")>>

\* the value whose text JSON.stringify writes: a property whose value is
\* undefined is left out, an undefined array element is written as null
RECURSIVE JsonOf(_)
JsonOf(x) ==
    CASE x.t = "object" ->
             LET keep == {key \in DOMAIN x.v : x.v[key].t # "undefined"}
             IN  Obj([key \in keep |-> JsonOf(x.v[key])])
      [] x.t = "array" ->
             Arr([i \in 1..Len(x.v) |->
                     IF x.v[i].t = "undefined" THEN Null ELSE JsonOf(x.v[i])])
      [] x.t = "error" -> EmptyObject
      [] OTHER -> x

\* JSON.stringify(x, null, 2): undefined when x is undefined, a string otherwise
JSONstringify(x) ==
    IF x.t = "undefined" THEN Undefined ELSE Str(<<JsonTok(JsonOf(x))>>)

\* { type: "text", text } with text a string value
TextFragment(text) == [type |-> "text", text |-> text]

\* a template literal: the concatenation of its parts
Template(parts) ==
    LET RECURSIVE Cat(_)
        Cat(ps) == IF ps = <<>> THEN <<>> ELSE Head(ps) \o Cat(Tail(ps))
    IN  Str(Cat(parts))

\* what a handler hands back to the transport
ToolResult(content) == [kind |-> "result", content |-> content]
\* a handler that has not returned (yet)
NoResult == [kind |-> "none", content |-> <<>>]
\* an exception that leaves the handler
Fault(error) == [kind |-> "fault", content |-> <<>>, error |-> error]

-----------------------------------------------------------------------------
(* The backend (esClient): how a call settles is the backend's choice *)

Resolve(v) == [settled |-> "resolve", value |-> v]
Reject(e) == [settled |-> "reject", value |-> e]
Pending == [settled |-> "pending", value |-> Undefined]

\* rejections: an Error instance, and a raw value
NetworkError == Err(S("ConnectionError"), S("ECONNREFUSED"))
RawFailure == S("timeout")
Rejections == {Reject(NetworkError), Reject(RawFailure)}

\* what the runtime throws when the handler misuses a value
TypeError == Err(S("TypeError"), S("cannot read properties"))

\* catalog entries as esClient.cat.indices({format: "json"}) returns them;
\* an entry carries more fields than the four the handler keeps
CatEntry(name, health, docs) ==
    Obj(K("index") :> S(name) @@ K("health") :> S(health) @@
        K("status") :> S("open") @@ K("docsCount") :> docs @@
        K("storeSize") :> S("1kb"))

EntryA == CatEntry("a", "green", S("7"))
EntryB == CatEntry("b", "yellow", Null)
\* an entry without docsCount
EntryC == Obj(K("index") :> S("c") @@ K("health") :> S("red") @@
              K("status") :> S("close"))

CatResponses ==
    { Arr(<<>>), Arr(<<EntryA>>), Arr(<<EntryC, EntryB>>),
      \* responses the handler cannot project
      Arr(<<EntryA, Null>>), Obj(K("error") :> S("boom")) }

CatOutcomes == {Resolve(v) : v \in CatResponses} \cup {Reject(NetworkError)}

-----------------------------------------------------------------------------
(* Tool 1: list_indices *)

\* faulty variant: an empty cached listing counts as no cache (cachedIndices.length)
IsFresh_EmptyIsStale(ci, ts, nw) ==
    /\ ci.t = "array" /\ Len(ci.v) > 0
    /\ Truthy(ts) /\ nw - ts.v < CACHE_DURATION

\* faulty variant: an entry is served whatever its age
IsFresh_IgnoresAge(ci, ts, nw) == Truthy(ci) /\ Truthy(ts)

\* faulty variant: the entry is still fresh when it is exactly CACHE_DURATION old
IsFresh_Inclusive(ci, ts, nw) ==
    Truthy(ci) /\ Truthy(ts) /\ nw - ts.v <= CACHE_DURATION

\* cachedIndices && cacheTimestamp && now - cacheTimestamp < CACHE_DURATION
IsFresh(ci, ts, nw) ==
    Truthy(ci) /\ Truthy(ts) /\ nw - ts.v < CACHE_DURATION

\* array.length
Length(a) == Num(Len(a.v))

\* the two fragments of a listing; suffix is " (cached)" or nothing
ListingResult(ci, suffix) ==
    ToolResult(<<
        TextFragment(Template(<<K("Found "), ToStringToks(Length(ci)),
                                K(" indices" \o suffix)>>)),
        TextFragment(JSONstringify(ci)) >>)

\* faulty variant: the cache-hit branch forgets the suffix
ListHit_Unmarked(ci) == ListingResult(ci, "")

\* the cache-hit branch
ListHit(ci) == ListingResult(ci, " (cached)")

\* response.map(...) throws unless response is an array whose entries can be read
CanMap(response) ==
    /\ response.t = "array"
    /\ \A i \in 1..Len(response.v) : ~Nullish(response.v[i])

\* (index) => ({index: index.index, health: ..., status: ..., docsCount: ...})
ProjectEntry(e) ==
    Obj(K("index") :> Get(e, K("index")) @@ K("health") :> Get(e, K("health")) @@
        K("status") :> Get(e, K("status")) @@
        K("docsCount") :> Get(e, K("docsCount")))

MapProject(response) ==
    Arr([i \in 1..Len(response.v) |-> ProjectEntry(response.v[i])])

\* faulty variant: cacheTimestamp = now is assigned before the response is mapped
ListTry_StampFirst(out, nw, ci, ts) ==
    IF out.settled = "reject"
    THEN [threw |-> TRUE, error |-> out.value, ci |-> ci, ts |-> ts,
          result |-> NoResult]
    ELSE IF ~CanMap(out.value)
    THEN [threw |-> TRUE, error |-> TypeError, ci |-> ci, ts |-> Num(nw),
          result |-> NoResult]
    ELSE LET projected == MapProject(out.value)
         IN  [threw |-> FALSE, error |-> Undefined, ci |-> projected,
              ts |-> Num(nw), result |-> ListingResult(projected, "")]

\* faulty variant: a failed refresh drops the cached listing and keeps its stamp
ListTry_ClearsValue(out, nw, ci, ts) ==
    IF out.settled = "reject"
    THEN [threw |-> TRUE, error |-> out.value, ci |-> Null, ts |-> ts,
          result |-> NoResult]
    ELSE IF ~CanMap(out.value)
    THEN [threw |-> TRUE, error |-> TypeError, ci |-> Null, ts |-> ts,
          result |-> NoResult]
    ELSE LET projected == MapProject(out.value)
         IN  [threw |-> FALSE, error |-> Undefined, ci |-> projected,
              ts |-> Num(nw), result |-> ListingResult(projected, "")]

\* faulty variant: the entry is stamped with the clock at the time of the write
ListTry_StampAtWrite(out, nw, ci, ts) ==
    IF out.settled = "reject"
    THEN [threw |-> TRUE, error |-> out.value, ci |-> ci, ts |-> ts,
          result |-> NoResult]
    ELSE IF ~CanMap(out.value)
    THEN [threw |-> TRUE, error |-> TypeError, ci |-> ci, ts |-> ts,
          result |-> NoResult]
    ELSE LET projected == MapProject(out.value)
         IN  [threw |-> FALSE, error |-> Undefined, ci |-> projected,
              ts |-> Num(clock), result |-> ListingResult(projected, "")]

\* faulty variant: a refresh does not replace an entry that is as recent as its
\* own clock reading
ListTry_KeepNewer(out, nw, ci, ts) ==
    IF out.settled = "reject"
    THEN [threw |-> TRUE, error |-> out.value, ci |-> ci, ts |-> ts,
          result |-> NoResult]
    ELSE IF ~CanMap(out.value)
    THEN [threw |-> TRUE, error |-> TypeError, ci |-> ci, ts |-> ts,
          result |-> NoResult]
    ELSE LET projected == MapProject(out.value)
             keep == Truthy(ts) /\ ts.v >= nw
         IN  [threw |-> FALSE, error |-> Undefined,
              ci |-> IF keep THEN ci ELSE projected,
              ts |-> IF keep THEN ts ELSE Num(nw),
              result |-> ListingResult(projected, "")]

\* the try block after the await: the new cache pair and the result, or the
\* error thrown, with the cache as the statements executed so far left it
ListTry(out, nw, ci, ts) ==
    IF out.settled = "reject"
    THEN [threw |-> TRUE, error |-> out.value, ci |-> ci, ts |-> ts,
          result |-> NoResult]
    ELSE IF ~CanMap(out.value)
    THEN [threw |-> TRUE, error |-> TypeError, ci |-> ci, ts |-> ts,
          result |-> NoResult]
    ELSE LET projected == MapProject(out.value)
         IN  [threw |-> FALSE, error |-> Undefined, ci |-> projected,
              ts |-> Num(nw), result |-> ListingResult(projected, "")]

\* the catch block: one console.error and the error fragment
ListCatch(error) ==
    [log |-> <<Template(<<K("Failed to list indices: "), ToStringToks(error)>>)>>,
     result |-> ToolResult(<<
         TextFragment(Template(<<K("Error: "), ToStringToks(error)>>)) >>)]

-----------------------------------------------------------------------------
(* Input schemas (zod), applied by server.tool before the handler runs *)

Space == Lit(" ")

\* String.prototype.trim on the tokens of a string
RECURSIVE TrimStart(_)
TrimStart(toks) ==
    IF toks # <<>> /\ Head(toks) = Space THEN TrimStart(Tail(toks)) ELSE toks

RECURSIVE TrimEnd(_)
TrimEnd(toks) ==
    IF toks # <<>> /\ toks[Len(toks)] = Space
    THEN TrimEnd(SubSeq(toks, 1, Len(toks) - 1))
    ELSE toks

Trim(toks) == TrimEnd(TrimStart(toks))

\* z.string().trim().min(1, ...): the parsed (trimmed) name, or a refusal
ParseIndex(raw) ==
    IF raw.t # "string"
    THEN [ok |-> FALSE, data |-> Undefined]
    ELSE LET trimmed == Trim(raw.v)
         IN  IF Len(trimmed) >= 1
             THEN [ok |-> TRUE, data |-> Str(trimmed)]
             ELSE [ok |-> FALSE, data |-> Undefined]

\* a value JSON.stringify throws on
BigInt(n) == [t |-> "bigint", v |-> n]

\* JSON.parse(JSON.stringify(val)) completes without throwing
RECURSIVE RoundTrips(_)
RoundTrips(x) ==
    CASE x.t = "bigint" -> FALSE
      [] x.t = "object" -> \A key \in DOMAIN x.v : RoundTrips(x.v[key])
      [] x.t = "array" -> \A i \in 1..Len(x.v) : RoundTrips(x.v[i])
      [] OTHER -> TRUE

\* z.record(z.any()).refine(...)
ParseQueryBody(raw) ==
    IF raw.t = "object" /\ RoundTrips(raw)
    THEN [ok |-> TRUE, data |-> raw]
    ELSE [ok |-> FALSE, data |-> Undefined]

\* the index arguments a caller may send
RawIndexes ==
    { Str(<<>>), Str(<<Space>>), S("a"), Str(<<Space, Lit("a"), Space>>) }

-----------------------------------------------------------------------------
(* Tool 2: get_mappings *)

MappingA == Obj(K("properties") :> Obj(K("title") :> Obj(K("type") :> S("text"))))

\* what esClient.indices.getMapping({index}) may resolve to
MappingResponses ==
    { Obj(K("a") :> Obj(K("mappings") :> MappingA)),
      \* no entry under the requested name
      Obj(K("a-000001") :> Obj(K("mappings") :> MappingA)),
      \* an entry without mappings
      Obj(K("a") :> EmptyObject),
      \* no response object at all
      Undefined }

MappingOutcomes == {Resolve(v) : v \in MappingResponses} \cup Rejections

\* error instanceof Error ? error.message : String(error)
MessageOf(error) ==
    IF error.t = "error" THEN error.message.v ELSE ToStringToks(error)

\* faulty variant: mappingResponse[index].mappings, without the optional chaining
MappingsTry_NoOptional(out, index) ==
    IF out.settled = "reject"
    THEN [threw |-> TRUE, error |-> out.value, result |-> NoResult]
    ELSE IF Nullish(out.value) \/ Nullish(Get(out.value, index.v))
    THEN [threw |-> TRUE, error |-> TypeError, result |-> NoResult]
    ELSE LET mappings ==
                 OrElse(Get(Get(out.value, index.v), K("mappings")), EmptyObject)
         IN  [threw |-> FALSE, error |-> Undefined,
              result |-> ToolResult(<<
                  TextFragment(Template(<<K("Mappings for index: "), index.v>>)),
                  TextFragment(Template(<<K("Mappings for index "), index.v,
                                          K(": "),
                                          ToStringToks(JSONstringify(mappings))>>))
              >>)]

\* the try block after the await
MappingsTry(out, index) ==
    IF out.settled = "reject"
    THEN [threw |-> TRUE, error |-> out.value, result |-> NoResult]
    ELSE IF Nullish(out.value)
    THEN [threw |-> TRUE, error |-> TypeError, result |-> NoResult]
    ELSE LET mappings ==
                 OrElse(OptGet(Get(out.value, index.v), K("mappings")), EmptyObject)
         IN  [threw |-> FALSE, error |-> Undefined,
              result |-> ToolResult(<<
                  TextFragment(Template(<<K("Mappings for index: "), index.v>>)),
                  TextFragment(Template(<<K("Mappings for index "), index.v,
                                          K(": "),
                                          ToStringToks(JSONstringify(mappings))>>))
              >>)]

\* the catch block
MappingsCatch(error) ==
    [log |-> <<Template(<<K("Failed to get mappings: "), MessageOf(error)>>)>>,
     result |-> ToolResult(<<
         TextFragment(Template(<<K("Error: "), MessageOf(error)>>)) >>)]

-----------------------------------------------------------------------------
(* Tool 3: search *)

\* highlight: { fields: { "*": {} } }
HighlightAll == Obj(K("fields") :> Obj(K("*") :> EmptyObject))

CallerHighlight == Obj(K("fields") :> Obj(K("title") :> EmptyObject))
MatchAll == Obj(K("match_all") :> EmptyObject)

\* the queryBody arguments a caller may send
RawQueryBodies ==
    { EmptyObject,
      Obj(K("query") :> MatchAll @@ K("from") :> Num(5)),
      Obj(K("index") :> S("b") @@ K("query") :> MatchAll),
      Obj(K("highlight") :> CallerHighlight @@ K("from") :> Num(0)),
      \* not serializable
      Obj(K("size") :> BigInt(1)),
      \* not a record
      Undefined }

\* faulty variant: highlight is written before the spread, { index, highlight,
\* ...queryBody }, so a highlight of the caller's replaces it
SearchRequest_HighlightFirst(index, queryBody) ==
    Obj(queryBody.v @@ (K("highlight") :> HighlightAll) @@ (K("index") :> index))

\* faulty variant: the query is nested under body instead of being spread
SearchRequest_Body(index, queryBody) ==
    Obj((K("highlight") :> HighlightAll) @@ (K("body") :> queryBody)
            @@ (K("index") :> index))

\* { index, ...queryBody, highlight: {...} }: a later property replaces an
\* earlier one of the same name
SearchRequest(index, queryBody) ==
    Obj((K("highlight") :> HighlightAll) @@ queryBody.v @@ (K("index") :> index))

Hit(id, source) == Obj(K("_id") :> S(id) @@ K("_source") :> source)
Hit1 == Hit("1", Obj(K("title") :> S("one")))
Hit2 == Hit("2", Obj(K("title") :> S("two")))
\* a hit the backend returns without its source
HitNoSource == Obj(K("_id") :> S("3"))

HitLists == { <<>>, <<Hit1>>, <<Hit2, Hit1>>, <<Hit1, HitNoSource>> }

\* hits.total: a bare integer, an object carrying value, an object without one
Totals ==
    {Num(n) : n \in 0..MaxTotal}
        \cup {Obj(K("value") :> Num(n) @@ K("relation") :> S("eq")) : n \in 0..MaxTotal}
        \cup {Obj(K("relation") :> S("eq"))}

SearchResponse(total, hits) ==
    Obj(K("hits") :> Obj(K("total") :> total @@ K("hits") :> Arr(hits)))

\* what esClient.search(request) may resolve to
SearchResponses ==
    {SearchResponse(total, <<Hit1>>) : total \in Totals}
        \cup {SearchResponse(Num(MaxTotal), hits) : hits \in HitLists}
        \* hits.total absent
        \cup {Obj(K("hits") :> Obj(K("hits") :> Arr(<<Hit2, Hit1>>)))}
        \* no hits object
        \cup {Obj(K("timed_out") :> S("true"))}

SearchOutcomes == {Resolve(v) : v \in SearchResponses} \cup Rejections

\* result.hits.hits.map(...) completes
CanMapHits(response) ==
    /\ ~Nullish(response)
    /\ ~Nullish(Get(response, K("hits")))
    /\ LET hits == Get(Get(response, K("hits")), K("hits"))
       IN  /\ hits.t = "array"
           /\ \A i \in 1..Len(hits.v) : ~Nullish(hits.v[i])

\* faulty variant: only the object form of hits.total is read
TotalOf_ValueOnly(response) ==
    LET total == Get(Get(response, K("hits")), K("total"))
    IN  OrElse(OptGet(total, K("value")), Num(0))

\* typeof result.hits.total === "number" ? result.hits.total
\*                                       : result.hits.total?.value || 0
TotalOf(response) ==
    LET total == Get(Get(response, K("hits")), K("total"))
    IN  IF TypeOf(total) = "number"
        THEN total
        ELSE OrElse(OptGet(total, K("value")), Num(0))

\* one fragment per hit, in the order of result.hits.hits
ContentFragments(hits) ==
    [i \in 1..Len(hits.v) |->
        TextFragment(JSONstringify(Get(hits.v[i], K("_source"))))]

MetadataFragment(response, from) ==
    TextFragment(Template(<<
        K("Total results: "), ToStringToks(TotalOf(response)),
        K(", showing "),
        ToStringToks(Length(Get(Get(response, K("hits")), K("hits")))),
        K(" from position "), ToStringToks(from) >>))

\* the try block after the await
SearchTry(out, queryBody) ==
    IF out.settled = "reject"
    THEN [threw |-> TRUE, error |-> out.value, result |-> NoResult]
    ELSE IF ~CanMapHits(out.value)
    THEN [threw |-> TRUE, error |-> TypeError, result |-> NoResult]
    ELSE LET from == OrElse(Get(queryBody, K("from")), Num(0))
             hits == Get(Get(out.value, K("hits")), K("hits"))
         IN  [threw |-> FALSE, error |-> Undefined,
              result |-> ToolResult(<<MetadataFragment(out.value, from)>>
                                        \o ContentFragments(hits))]

\* faulty variant: the catch block logs and rethrows
SearchCatch_Rethrow(error) ==
    [log |-> <<Template(<<K("Search failed: "), ToStringToks(error)>>)>>,
     result |-> Fault(error)]

\* the catch block
SearchCatch(error) ==
    [log |-> <<Template(<<K("Search failed: "), ToStringToks(error)>>)>>,
     result |-> ToolResult(<<
         TextFragment(Template(<<K("Error: "), ToStringToks(error)>>)) >>)]

-----------------------------------------------------------------------------
(* Actions *)

\* nothing has returned yet
NoReturn ==
    [id |-> 0, tool |-> "none", locals |-> <<>>, seen |-> 0, fetches |-> 0,
     outcome |-> Pending, logged |-> <<>>, result |-> NoResult]

Init ==
    /\ clock = StartClock
    /\ ticks = 0
    /\ cachedIndices = Null
    /\ cacheTimestamp = Null
    /\ calls = 0
    /\ tool = [j \in Calls |-> "none"]
    /\ pc = [j \in Calls |-> "idle"]
    /\ locals = [j \in Calls |-> <<>>]
    /\ fetches = [j \in Calls |-> 0]
    /\ seen = [j \in Calls |-> 0]
    /\ returned = NoReturn
    /\ writeLog = <<>>

\* faulty variant: the wall clock is set back (Date.now() is not monotonic)
Tick_SetBack(d) ==
    /\ ticks < MaxTicks
    /\ ticks' = ticks + 1
    /\ clock' = IF clock > d THEN clock - d ELSE clock + d
    /\ UNCHANGED <<cachedIndices, cacheTimestamp, calls, tool, pc, locals,
                   fetches, seen, returned, writeLog>>

\* time passes
Tick(d) ==
    /\ ticks < MaxTicks
    /\ ticks' = ticks + 1
    /\ clock' = clock + d
    /\ UNCHANGED <<cachedIndices, cacheTimestamp, calls, tool, pc, locals,
                   fetches, seen, returned, writeLog>>

\* the transport starts invocation j, the next one
Begin(j) ==
    /\ calls < MaxCalls
    /\ j = calls + 1
    /\ calls' = j

\* invocation j suspends at its backend call, which it has just issued
Await(j, name, frame) ==
    /\ pc' = [pc EXCEPT ![j] = "await"]
    /\ tool' = [tool EXCEPT ![j] = name]
    /\ locals' = [locals EXCEPT ![j] = frame]
    /\ fetches' = [fetches EXCEPT ![j] = @ + 1]
    /\ seen' = [seen EXCEPT ![j] = Len(writeLog)]

\* the handler of invocation j returns ret.result after writing ret.log with
\* console.error: the invocation is over and its frame is gone
Return(j, name, frame, nfetches, sn, out, ret) ==
    /\ pc' = [pc EXCEPT ![j] = "done"]
    /\ tool' = [tool EXCEPT ![j] = "none"]
    /\ locals' = [locals EXCEPT ![j] = <<>>]
    /\ fetches' = [fetches EXCEPT ![j] = 0]
    /\ seen' = [seen EXCEPT ![j] = 0]
    /\ returned' = [id |-> j, tool |-> name, locals |-> frame, seen |-> sn,
                    fetches |-> nfetches, outcome |-> out, logged |-> ret.log,
                    result |-> ret.result]

\* the schema refuses the arguments of invocation j: the handler never runs
Refuse(j) ==
    /\ pc' = [pc EXCEPT ![j] = "invalid"]
    /\ UNCHANGED <<tool, locals, fetches, seen, returned>>

\* the transport invokes list_indices: the handler runs up to its return on a
\* cache hit, or up to the await of esClient.cat.indices otherwise
ListIndicesCall(j) ==
    /\ Begin(j)
    /\ IF IsFresh(cachedIndices, cacheTimestamp, clock)
       THEN Return(j, "list_indices", [now |-> clock], 0, Len(writeLog), Pending,
                   [log |-> <<>>, result |-> ListHit(cachedIndices)])
       ELSE Await(j, "list_indices", [now |-> clock]) /\ UNCHANGED returned
    /\ UNCHANGED <<clock, ticks, cachedIndices, cacheTimestamp, writeLog>>

\* what the handler of invocation j hands back once its try block ran: the
\* result of the try block, or what the catch block makes of the error
Finish(j, out, try, catch) ==
    Return(j, tool[j], locals[j], fetches[j], seen[j], out,
           IF try.threw THEN catch ELSE [log |-> <<>>, result |-> try.result])

\* esClient.cat.indices settles and the handler runs to its return
ListIndicesSettle(j, out) ==
    /\ pc[j] = "await"
    /\ tool[j] = "list_indices"
    /\ LET try == ListTry(out, locals[j].now, cachedIndices, cacheTimestamp)
       IN  /\ cachedIndices' = try.ci
           /\ cacheTimestamp' = try.ts
           /\ Finish(j, out, try, ListCatch(try.error))
           /\ writeLog' =
                  IF try.threw
                  THEN writeLog
                  ELSE Append(writeLog, [id |-> j, now |-> locals[j].now,
                                         dump |-> try.result.content[2].text])
    /\ UNCHANGED <<clock, ticks, calls>>

\* the transport invokes get_mappings: the schema refuses the arguments, or the
\* handler runs up to the await of esClient.indices.getMapping
GetMappingsCall(j, rawIndex) ==
    /\ Begin(j)
    /\ LET index == ParseIndex(rawIndex)
       IN  IF index.ok
           THEN Await(j, "get_mappings", [index |-> index.data])
                    /\ UNCHANGED returned
           ELSE Refuse(j)
    /\ UNCHANGED <<clock, ticks, cachedIndices, cacheTimestamp, writeLog>>

\* esClient.indices.getMapping settles and the handler runs to its return
GetMappingsSettle(j, out) ==
    /\ pc[j] = "await"
    /\ tool[j] = "get_mappings"
    /\ LET try == MappingsTry(out, locals[j].index)
       IN  Finish(j, out, try, MappingsCatch(try.error))
    /\ UNCHANGED <<clock, ticks, cachedIndices, cacheTimestamp, calls, writeLog>>

\* the transport invokes search: the schema refuses the arguments, or the
\* handler builds searchRequest and runs up to the await of esClient.search
SearchCall(j, rawIndex, rawQueryBody) ==
    /\ Begin(j)
    /\ LET index == ParseIndex(rawIndex)
           queryBody == ParseQueryBody(rawQueryBody)
       IN  IF index.ok /\ queryBody.ok
           THEN Await(j, "search",
                      [index |-> index.data, queryBody |-> queryBody.data,
                       searchRequest |-> SearchRequest(index.data, queryBody.data)])
                    /\ UNCHANGED returned
           ELSE Refuse(j)
    /\ UNCHANGED <<clock, ticks, cachedIndices, cacheTimestamp, writeLog>>

\* esClient.search settles and the handler runs to its return
SearchSettle(j, out) ==
    /\ pc[j] = "await"
    /\ tool[j] = "search"
    /\ LET try == SearchTry(out, locals[j].queryBody)
       IN  Finish(j, out, try, SearchCatch(try.error))
    /\ UNCHANGED <<clock, ticks, cachedIndices, cacheTimestamp, calls, writeLog>>

NextList ==
    \/ \E d \in Deltas : Tick(d)
    \/ \E j \in Calls : ListIndicesCall(j)
    \/ \E j \in Calls, out \in CatOutcomes : ListIndicesSettle(j, out)

\* list_indices alone, under any interleaving and any clock
SpecList == Init /\ [][NextList]_vars

NextMappings ==
    \/ \E j \in Calls, rawIndex \in RawIndexes : GetMappingsCall(j, rawIndex)
    \/ \E j \in Calls, out \in MappingOutcomes : GetMappingsSettle(j, out)

\* get_mappings alone
SpecMappings == Init /\ [][NextMappings]_vars

NextSearch ==
    \/ \E j \in Calls, rawIndex \in RawIndexes, rawQueryBody \in RawQueryBodies :
            SearchCall(j, rawIndex, rawQueryBody)
    \/ \E j \in Calls, out \in SearchOutcomes : SearchSettle(j, out)

\* search alone
SpecSearch == Init /\ [][NextSearch]_vars

Next == NextList \/ NextMappings \/ NextSearch

\* the three tools, interleaved
Spec == Init /\ [][Next]_vars

-----------------------------------------------------------------------------
(* Vocabulary of the properties *)

\* the invocation that returned last ran list_indices and returned a listing:
\* its summary tokens and its JSON dump
ReturnedResult == returned.result.kind = "result"
ReturnedListing ==
    returned.tool = "list_indices" /\ ReturnedResult
        /\ Len(returned.result.content) = 2
Summary == returned.result.content[1].text.v
Dump == returned.result.content[2].text
MarkedCached == Summary[Len(Summary)] = Lit(" indices (cached)")
MarkedFresh == Summary[Len(Summary)] = Lit(" indices")

\* the result res is a single text fragment that begins with "Error: "
IsErrorResult(res) ==
    /\ res.kind = "result"
    /\ Len(res.content) = 1
    /\ res.content[1].type = "text"
    /\ res.content[1].text.t = "string"
    /\ res.content[1].text.v # <<>>
    /\ Head(res.content[1].text.v) = Lit("Error: ")

\* the catalog fetch settled in a way the handler cannot turn into a listing
FetchFailed(out) ==
    \/ out.settled = "reject"
    \/ /\ out.settled = "resolve"
       /\ \/ out.value.t # "array"
          \/ \E i \in 1..Len(out.value.v) : out.value.v[i].t \in {"null", "undefined"}
FetchSucceeded(out) == out.settled = "resolve" /\ ~FetchFailed(out)

-----------------------------------------------------------------------------
(* C1 *)

\* C1 as stated: once a refresh has succeeded, every list_indices invocation
\* that starts after it and less than CACHE_DURATION after that refresh read the
\* clock returns the sequence the refresh returned, marked cached.
C1_SameAsFirstRefresh ==
    \A n \in 1..Len(writeLog) :
        (returned.tool = "list_indices" /\ returned.seen >= n
            /\ returned.locals.now - writeLog[n].now < CACHE_DURATION)
        => (ReturnedListing /\ MarkedCached /\ Dump = writeLog[n].dump)

\* C1 (amended): every list_indices invocation that starts less than
\* CACHE_DURATION after the clock reading of the refresh that wrote the cache
\* last returns the sequence that refresh returned, marked cached; so the
\* invocations between two cache writes all return the same sequence.
C1_SameAsLastRefresh ==
    (returned.tool = "list_indices" /\ returned.seen > 0
        /\ returned.locals.now - writeLog[returned.seen].now < CACHE_DURATION)
    => (ReturnedListing /\ MarkedCached /\ Dump = writeLog[returned.seen].dump)

\* a hit at the last fresh millisecond, after two overlapping refreshes wrote
C1_Witness ==
    /\ returned.tool = "list_indices" /\ returned.seen = 2
    /\ writeLog[1].now = writeLog[2].now
    /\ writeLog[1].dump # writeLog[2].dump
    /\ returned.locals.now - writeLog[2].now = CACHE_DURATION - 1
    /\ ReturnedListing /\ MarkedCached

-----------------------------------------------------------------------------
(* C2 *)

\* the clock reading of the last refresh before j started is CACHE_DURATION
\* or more before j's
StartedStale(n, nw) == n > 0 /\ nw - writeLog[n].now >= CACHE_DURATION

\* C2: a list_indices invocation that starts CACHE_DURATION or more after the
\* clock reading of the last successful refresh issues exactly one catalog
\* fetch, and when the fetch succeeds its summary is "Found N indices",
\* N the number of entries fetched, without " (cached)".
C2_StaleFetchesOnce ==
    /\ \A j \in Calls :
           (tool[j] = "list_indices" /\ pc[j] = "await"
               /\ StartedStale(seen[j], locals[j].now))
           => fetches[j] = 1
    /\ (returned.tool = "list_indices"
           /\ StartedStale(returned.seen, returned.locals.now))
       => /\ returned.fetches = 1
          /\ FetchSucceeded(returned.outcome)
                 => /\ ReturnedListing
                    /\ Summary = <<Lit("Found "),
                                   NumTok(Len(returned.outcome.value.v)),
                                   Lit(" indices")>>

\* a refresh exactly CACHE_DURATION after the previous one
C2_Witness ==
    /\ returned.tool = "list_indices" /\ returned.seen > 0
    /\ returned.locals.now - writeLog[returned.seen].now = CACHE_DURATION
    /\ FetchSucceeded(returned.outcome)
    /\ ReturnedListing /\ MarkedFresh

-----------------------------------------------------------------------------
(* C3 *)

\* C3: a list_indices invocation that starts while an entry is cached whose
\* timestamp is less than CACHE_DURATION old returns the cached value marked
\* cached, issues no backend call and leaves cachedIndices and cacheTimestamp
\* as they were.
C3_HitStep ==
    \A j \in Calls :
        (pc[j] = "idle" /\ pc'[j] # "idle"
            /\ \/ tool'[j] = "list_indices"
               \/ returned'.id = j /\ returned'.tool = "list_indices"
            /\ cachedIndices # Null /\ cacheTimestamp # Null
            /\ clock - cacheTimestamp.v < CACHE_DURATION)
        => /\ pc'[j] = "done"
           /\ returned'.id = j
           /\ returned'.result.kind = "result"
           /\ Len(returned'.result.content) = 2
           /\ returned'.result.content[1].text =
                  Str(<<Lit("Found "), NumTok(Len(cachedIndices.v)),
                        Lit(" indices (cached)")>>)
           /\ returned'.result.content[2].text =
                  Str(<<JsonTok(JsonOf(cachedIndices))>>)
           /\ returned'.fetches = 0
           /\ cachedIndices' = cachedIndices
           /\ cacheTimestamp' = cacheTimestamp

C3_HitLeavesCache == [][C3_HitStep]_vars

\* a hit that serves a cached empty listing
C3_Witness ==
    /\ ReturnedListing /\ MarkedCached
    /\ returned.fetches = 0
    /\ Summary[2] = NumTok(0)
    /\ cachedIndices = Arr(<<>>)

-----------------------------------------------------------------------------
(* C4 *)

\* C4: when the catalog fetch of a list_indices invocation rejects or resolves
\* to a response that cannot be projected, cachedIndices and cacheTimestamp are
\* what they were before the failure and the invocation returns a single
\* "Error: ..." fragment.
C4_FailStep ==
    \A j \in Calls :
        (pc[j] = "await" /\ pc'[j] = "done" /\ tool[j] = "list_indices"
            /\ FetchFailed(returned'.outcome))
        => /\ cachedIndices' = cachedIndices
           /\ cacheTimestamp' = cacheTimestamp
           /\ returned'.id = j
           /\ IsErrorResult(returned'.result)

C4_FailureLeavesCache == [][C4_FailStep]_vars

\* a fetch has just failed while the cache held a stale entry, which is still
\* there
C4_Witness ==
    /\ returned.tool = "list_indices" /\ FetchFailed(returned.outcome)
    /\ IsErrorResult(returned.result)
    /\ returned.seen > 0 /\ Len(writeLog) = returned.seen
    /\ cachedIndices # Null
    /\ returned.locals.now - cacheTimestamp.v >= CACHE_DURATION

-----------------------------------------------------------------------------
(* C5 *)

\* the text by which a failure describes itself
Description(e) == IF e.t = "error" THEN e.message.v ELSE ToStringToks(e)

\* part occurs in text
Contains(text, part) ==
    \E a \in 1..(Len(text) - Len(part) + 1) :
        SubSeq(text, a, a + Len(part) - 1) = part

-----------------------------------------------------------------------------
(* C7 *)

SearchAwaits(j) == tool[j] = "search" /\ pc[j] = "await"

\* C7: the index of the request a search sends to the backend is the explicit
\* index argument, whatever the queryBody contains.
C7_IndexIsExplicit ==
    \A j \in Calls :
        SearchAwaits(j)
        => Get(locals[j].searchRequest, K("index")) = locals[j].index

-----------------------------------------------------------------------------
(* C8 *)

\* C8 as stated: the request carries the caller's value for every key of the
\* queryBody other than "index", "highlight" included.
C8_CallerKeysKept ==
    \A j \in Calls :
        SearchAwaits(j)
        => \A key \in DOMAIN locals[j].queryBody.v \ {K("index")} :
               Get(locals[j].searchRequest, key) = locals[j].queryBody.v[key]

\* C8 (amended): the request carries the caller's value for every key of the
\* queryBody other than "index" and "highlight"; under "highlight" it carries
\* the handler's own directive, whatever the caller supplied.
C8_CallerKeysKeptButHighlight ==
    \A j \in Calls :
        SearchAwaits(j)
        => /\ \A key \in DOMAIN locals[j].queryBody.v
                            \ {K("index"), K("highlight")} :
                  /\ key \in DOMAIN locals[j].searchRequest.v
                  /\ locals[j].searchRequest.v[key] = locals[j].queryBody.v[key]
           /\ Get(locals[j].searchRequest, K("highlight")) = HighlightAll

\* a request under way whose queryBody supplied both "from" and "highlight"
C8_Witness ==
    \E j \in Calls :
        /\ SearchAwaits(j)
        /\ {K("from"), K("highlight")} \subseteq DOMAIN locals[j].queryBody.v
        /\ locals[j].queryBody.v[K("highlight")] # HighlightAll
        /\ Get(locals[j].searchRequest, K("from")) = locals[j].queryBody.v[K("from")]

-----------------------------------------------------------------------------
(* C9 *)

\* the search that returned last got a response it could normalize
SearchNormalized ==
    /\ returned.tool = "search" /\ ReturnedResult
    /\ returned.outcome.settled = "resolve"
    /\ ~IsErrorResult(returned.result)

\* hits.total as the backend sent it (undefined when absent)
RawTotal ==
    LET hits == returned.outcome.value.v[K("hits")].v
    IN  IF K("total") \in DOMAIN hits THEN hits[K("total")] ELSE Undefined

\* the token after "Total results: " in the metadata fragment
ReportedTotal == returned.result.content[1].text.v[2]

\* C9: the metadata fragment reports n both when hits.total is the bare integer
\* n and when it is an object whose value is n, and 0 when hits.total is absent
\* or is an object without a value.
C9_TotalOfEitherShape ==
    SearchNormalized
    => /\ returned.result.content[1].text.v[1] = Lit("Total results: ")
       /\ RawTotal.t = "number" => ReportedTotal = NumTok(RawTotal.v)
       /\ (RawTotal.t = "object" /\ K("value") \in DOMAIN RawTotal.v)
              => ReportedTotal = NumTok(RawTotal.v[K("value")].v)
       /\ (RawTotal.t = "undefined"
              \/ (RawTotal.t = "object" /\ K("value") \notin DOMAIN RawTotal.v))
              => ReportedTotal = NumTok(0)

\* the largest total, sent as a bare integer, is reported as it is
C9_Witness ==
    /\ SearchNormalized
    /\ RawTotal = Num(MaxTotal)
    /\ ReportedTotal = NumTok(MaxTotal)

-----------------------------------------------------------------------------
(* C10 *)

\* the get_mappings that returned last got a response without mapping data
\* for its index
NoMappingData ==
    /\ returned.tool = "get_mappings"
    /\ returned.outcome.settled = "resolve"
    /\ returned.outcome.value.t = "object"
    /\ LET response == returned.outcome.value.v
           name == returned.locals.index.v
       IN  \/ name \notin DOMAIN response
           \/ K("mappings") \notin DOMAIN response[name].v

\* C10: a get_mappings whose backend call resolves without mapping data for the
\* index returns two fragments, the second ending in the JSON text of an empty
\* object, not an "Error: " fragment, and writes nothing with console.error.
C10_MissingMappingIsEmptyObject ==
    NoMappingData
    => /\ ReturnedResult
       /\ Len(returned.result.content) = 2
       /\ LET text == returned.result.content[2].text.v
          IN  text[Len(text)] = JsonTok(EmptyObject)
       /\ ~IsErrorResult(returned.result)
       /\ returned.logged = <<>>

\* the response had no entry under the requested name
C10_Witness ==
    /\ NoMappingData
    /\ returned.locals.index.v \notin DOMAIN returned.outcome.value.v
    /\ Len(returned.result.content) = 2

-----------------------------------------------------------------------------
(* C11 *)

\* the hits of the response the search that returned last got, in the order
\* the backend sent them
ReturnedHits == returned.outcome.value.v[K("hits")].v[K("hits")].v

\* queryBody.from of the search that returned last, 0 when the query has none
RequestedFrom ==
    LET queryBody == returned.locals.queryBody.v
    IN  IF K("from") \in DOMAIN queryBody THEN queryBody[K("from")] ELSE Num(0)

\* C11: a successful search with k hits returns k + 1 fragments: the first is
\* "Total results: {total}, showing {k} from position {from}" with from the
\* queryBody's from (0 when it has none), and fragment i + 1 is a text holding
\* the JSON of the source of the i-th hit, in the backend's order.
C11_FragmentsInBackendOrder ==
    SearchNormalized
    => LET content == returned.result.content
           k == Len(ReturnedHits)
       IN  /\ Len(content) = k + 1
           /\ content[1].text =
                  Str(<<Lit("Total results: "), ReportedTotal, Lit(", showing "),
                        NumTok(k), Lit(" from position "),
                        NumTok(RequestedFrom.v)>>)
           /\ \A i \in 1..k :
                  /\ content[i + 1].type = "text"
                  /\ K("_source") \in DOMAIN ReturnedHits[i].v
                  /\ content[i + 1].text =
                         Str(<<JsonTok(ReturnedHits[i].v[K("_source")])>>)

-----------------------------------------------------------------------------
(* C12 *)

\* the list_indices invocation that returned last had fetched, its fetch
\* succeeded, and another invocation wrote the cache while it was in flight
\* (after it started, before it resolved): both had started on a cache miss
\* and each had started before the other resolved
ResolvedLastOfTwo ==
    /\ returned.tool = "list_indices"
    /\ returned.fetches = 1
    /\ FetchSucceeded(returned.outcome)
    /\ \E n \in (returned.seen + 1)..Len(writeLog) :
           writeLog[n].id # returned.id

\* C12: list_indices invocations that are in flight together have each issued
\* one catalog fetch; and when two overlapping invocations that both started on
\* a cache miss have both completed, both have written the cache, and
\* cachedIndices and cacheTimestamp are the projection and the clock reading of
\* the one whose fetch resolved last, whether it started first or second.
C12_LastResolvedWins ==
    /\ \A i, j \in Calls :
           (i # j /\ pc[i] = "await" /\ pc[j] = "await"
               /\ tool[i] = "list_indices" /\ tool[j] = "list_indices")
           => fetches[i] = 1 /\ fetches[j] = 1
    /\ ResolvedLastOfTwo
       => /\ Len(writeLog) >= returned.seen + 2
          /\ writeLog[Len(writeLog)].id = returned.id
          /\ \A n \in (returned.seen + 1)..(Len(writeLog) - 1) :
                 writeLog[n].id # returned.id
          /\ cachedIndices = MapProject(returned.outcome.value)
          /\ cacheTimestamp = Num(returned.locals.now)

\* the invocation that started first resolved last, after the clock had moved
\* between the two starts: the cache holds its listing and its older reading
C12_Witness ==
    /\ ResolvedLastOfTwo
    /\ Len(writeLog) = 2
    /\ writeLog[1].id > writeLog[2].id
    /\ writeLog[1].now > writeLog[2].now
    /\ writeLog[1].dump # writeLog[2].dump
    /\ cacheTimestamp = Num(writeLog[2].now)

-----------------------------------------------------------------------------
(* C13 *)

\* the four fields the cache keeps of a catalog entry
CachedFields == {K("index"), K("health"), K("status"), K("docsCount")}

\* the entries of a catalog response reduced to the four fields, in the order
\* of the response; a field the backend left out is undefined
Projection(response) ==
    Arr([i \in 1..Len(response.v) |->
            Obj([key \in CachedFields |->
                    IF key \in DOMAIN response.v[i].v
                    THEN response.v[i].v[key]
                    ELSE Undefined])])

\* C13: when the catalog fetch of a list_indices invocation succeeds, the step
\* leaves in cachedIndices the projection of that invocation's response, in
\* cacheTimestamp the clock reading the invocation took when it started, and
\* the invocation returns "Found N indices" (not cached) with the JSON dump of
\* that same sequence.
C13_RefreshStep ==
    \A j \in Calls :
        (pc[j] = "await" /\ pc'[j] = "done" /\ tool[j] = "list_indices"
            /\ FetchSucceeded(returned'.outcome))
        => LET response == returned'.outcome.value
           IN  /\ cachedIndices' = Projection(response)
               /\ cacheTimestamp' = Num(locals[j].now)
               /\ locals[j].now <= clock
               /\ returned'.id = j
               /\ returned'.result.kind = "result"
               /\ Len(returned'.result.content) = 2
               /\ returned'.result.content[1].text =
                      Str(<<Lit("Found "), NumTok(Len(response.v)),
                            Lit(" indices")>>)
               /\ returned'.result.content[2].text =
                      Str(<<JsonTok(JsonOf(cachedIndices'))>>)

C13_RefreshWritesProjection == [][C13_RefreshStep]_vars

\* a refresh of two entries has just written, stamped with a reading older
\* than the clock at the write
C13_Witness ==
    /\ returned.tool = "list_indices" /\ returned.fetches = 1
    /\ returned.outcome = Resolve(Arr(<<EntryC, EntryB>>))
    /\ ReturnedListing /\ MarkedFresh
    /\ Len(cachedIndices.v) = 2
    /\ cachedIndices.v[1].v[K("index")] = S("c")
    /\ cacheTimestamp = Num(returned.locals.now)
    /\ cacheTimestamp.v < clock

-----------------------------------------------------------------------------
(* C14 *)

\* the invocation that returned last was a list_indices served from the cache
ServedFromCache ==
    /\ returned.tool = "list_indices" /\ returned.fetches = 0
    /\ ReturnedListing /\ MarkedCached

\* C14: a listing list_indices serves from the cache at clock reading t is the
\* listing a catalog fetch returned, namely the fetch of the last refresh that
\* wrote before the serving invocation started, and that fetch was issued
\* (at the clock reading its invocation took) at most t and less than
\* CACHE_DURATION before t.
C14_ServedIsRecent ==
    ServedFromCache
    => /\ returned.seen > 0
       /\ LET fetch == writeLog[returned.seen]
              t == returned.locals.now
          IN  /\ Dump = fetch.dump
              /\ fetch.now <= t
              /\ t - fetch.now < CACHE_DURATION

\* a listing is served at the last millisecond of its window while another
\* invocation's fetch is still in flight
C14_Witness ==
    /\ ServedFromCache
    /\ returned.seen = 1
    /\ returned.locals.now - writeLog[1].now = CACHE_DURATION - 1
    /\ \E j \in Calls : pc[j] = "await" /\ tool[j] = "list_indices"

-----------------------------------------------------------------------------
(* C15 *)

\* request asks for highlights on every field: highlight.fields has the one
\* key "*", with an empty object
HighlightsEveryField(request) ==
    /\ K("highlight") \in DOMAIN request.v
    /\ LET highlight == request.v[K("highlight")]
       IN  /\ highlight.t = "object"
           /\ DOMAIN highlight.v = {K("fields")}
           /\ highlight.v[K("fields")].t = "object"
           /\ DOMAIN highlight.v[K("fields")].v = {K("*")}
           /\ highlight.v[K("fields")].v[K("*")] = Obj(<<>>)

\* C15: every request a search has sent to the backend, answered or not yet,
\* asks for highlights on every field, whatever the queryBody contains.
C15_HighlightsEveryField ==
    /\ \A j \in Calls :
           SearchAwaits(j) => HighlightsEveryField(locals[j].searchRequest)
    /\ (returned.tool = "search" /\ returned.fetches = 1)
           => HighlightsEveryField(returned.locals.searchRequest)

\* the backend has answered a search whose queryBody asked for highlights on
\* one field only
C15_Witness ==
    /\ returned.tool = "search" /\ returned.fetches = 1
    /\ returned.outcome.settled = "resolve"
    /\ K("highlight") \in DOMAIN returned.locals.queryBody.v
    /\ ~HighlightsEveryField(returned.locals.queryBody)
    /\ HighlightsEveryField(returned.locals.searchRequest)

-----------------------------------------------------------------------------
(* C16 *)

\* C16: cachedIndices and cacheTimestamp are both null, and no refresh has
\* written yet, or both are set, cachedIndices to the listing and
\* cacheTimestamp to the clock reading of one and the same invocation, the
\* one that wrote last.
C16_PairFromOneInvocation ==
    \/ /\ cachedIndices = Null
       /\ cacheTimestamp = Null
       /\ writeLog = <<>>
    \/ /\ writeLog # <<>>
       /\ cachedIndices.t = "array"
       /\ cacheTimestamp.t = "number"
       /\ LET last == writeLog[Len(writeLog)]
          IN  /\ cacheTimestamp.v = last.now
              /\ Str(<<JsonTok(JsonOf(cachedIndices))>>) = last.dump

\* a fetch has just failed after two overlapping refreshes with different
\* clock readings and different listings wrote the cache
C16_Witness ==
    /\ returned.tool = "list_indices" /\ FetchFailed(returned.outcome)
    /\ Len(writeLog) = 2
    /\ writeLog[1].now # writeLog[2].now
    /\ writeLog[1].dump # writeLog[2].dump
    /\ writeLog[1].id # writeLog[2].id
    /\ cacheTimestamp = Num(writeLog[2].now)
    /\ cachedIndices # Null

-----------------------------------------------------------------------------
(* C17 *)

Writes(j) ==
    /\ pc[j] = "await" /\ pc'[j] = "done" /\ tool[j] = "list_indices"
    /\ FetchSucceeded(returned'.outcome)

\* C17 (amended): once set, the stored timestamp stays a number, and a step
\* lowers it only when it is the cache write of an invocation that started
\* before the invocation whose entry it overwrites and was still in flight when
\* that entry was written; a write by an invocation that started later never
\* lowers it.
C17_LoweredStep ==
    cacheTimestamp # Null
    => /\ cacheTimestamp'.t = "number"
       /\ cacheTimestamp'.v < cacheTimestamp.v
              => \E j \in Calls :
                     /\ Writes(j)
                     /\ j < writeLog[Len(writeLog)].id
                     /\ seen[j] < Len(writeLog)
                     /\ cacheTimestamp'.v = locals[j].now

====
